---- MODULE Spec2Model ----
(***************************************************************************)
(* Model of group_access_bot.py: the store of time-limited grants          *)
(* (DataManager), the VIP allowlist (VIPManager), the admin handlers that  *)
(* grant and remove access, the join-request handler and the background    *)
(* sweeper check_users_task with its coroutines kick_user / send_warning.  *)
(*                                                                         *)
(* Time is an integer number of hours.  A handler runs from one await      *)
(* that really suspends to the next; the sweeper is therefore cut at its   *)
(* Bot API calls, and the admin handlers interleave with it there.         *)
(***************************************************************************)
EXTENDS Integers, Sequences, FiniteSets, TLC

\* ------------------------------------------------------------------ bounds
MaxNow == 2
MaxExpiry == 3

\* Python's None where the code holds an optional integer or datetime.
None == -100

\* config.WARNING_HOURS (hours before expiry at which the warning is due).
WARNING_HOURS == 1

\* config.ADMIN_IDS: the senders allowed to use the admin handlers.
ADMIN_IDS == {100}

\* The user ids the channel knows, and those that requests, prompts and
\* buttons refer to.
UserIds == {1, 2}
InputIds == {1}

\* The hours a button's callback data can carry: callback_add_time takes
\* float(parts[2]) as it comes, and config.TIME_BUTTONS is not checked.
ButtonHours == {0, 1, 2}

\* Message texts, as sequences of characters.
Texts == { <<"1">>, <<"0">>, <<"-", "1">>, <<"x">> }

VARIABLES
    users,        \* data_manager.users: dict user_id -> UserData
    keyOrder,     \* insertion order of the keys of data_manager.users
    dataFile,     \* what DATA_FILE holds
    disk,         \* what the next open(..., 'w') / json.dump will meet
    vip_users,    \* vip_manager.vip_users: list of ids
    vipFile,      \* what VIP_FILE holds
    now,          \* datetime.now()
    fsmState,     \* aiogram FSM state of each sender
    fsmData,      \* aiogram FSM data of each sender
    chat,         \* each user's relation to the channel: out, pending, member
    swPc,         \* where check_users_task is suspended
    swNow,        \* the tick's `now`
    swQueue,      \* the part of the tick's snapshot not yet examined
    swCur,        \* the user id kick_user / send_warning is running for
    swDet,        \* send_warning's `user` object is no longer in the store
    warned,       \* history: warnings sent to a user since the last grant
    revoked,      \* history: users whose record the sweeper deleted
    last          \* history: the handler step that ran last

vars == <<users, keyOrder, dataFile, disk, vip_users, vipFile, now,
          fsmState, fsmData, chat, swPc, swNow, swQueue, swCur, swDet,
          warned, revoked, last>>

\* ------------------------------------------------------------- helpers
Range(s) == { s[i] : i \in 1..Len(s) }

RECURSIVE RemoveFirst(_, _)
RemoveFirst(s, x) ==
    IF s = <<>> THEN <<>>
    ELSE IF Head(s) = x THEN Tail(s)
    ELSE <<Head(s)>> \o RemoveFirst(Tail(s), x)

\* ------------------------------------------------------------- UserData
UserData(user_id, username) ==
    [user_id |-> user_id, username |-> username,
     expires_at |-> None, warning_sent |-> FALSE]

NoUsername == ""

\* JSON null, and the text forms of the integers the files hold.
Null == <<"n", "u", "l", "l">>

DigitChar(d) ==
    CASE d = 0 -> "0" [] d = 1 -> "1" [] d = 2 -> "2" [] d = 3 -> "3"
      [] d = 4 -> "4" [] d = 5 -> "5" [] d = 6 -> "6" [] d = 7 -> "7"
      [] d = 8 -> "8" [] d = 9 -> "9"

\* str(n) for n >= 0: the decimal digits.
RECURSIVE str(_)
str(n) ==
    IF n < 10 THEN <<DigitChar(n)>>
    ELSE Append(str(n \div 10), DigitChar(n % 10))

\* datetime.isoformat(): the text of an instant.
isoformat(t) == <<"T">> \o str(t)

\* UserData.to_dict, one entry of the JSON file.
to_dict(user) ==
    [user_id |-> user.user_id, username |-> user.username,
     expires_at |-> IF user.expires_at # None
                    THEN isoformat(user.expires_at) ELSE Null,
     warning_sent |-> user.warning_sent]

\* The three things a file can be: not there, not parseable, or JSON.
Absent == [kind |-> "absent", data |-> <<>>]
Malformed == [kind |-> "malformed", data |-> <<>>]
Json(data) == [kind |-> "json", data |-> data]

\* DataManager.save_data: the text json.dump produces, the whole dict
\* re-serialised under the keys str(uid).
save_data(us) ==
    Json([k \in { str(uid) : uid \in DOMAIN us } |->
             to_dict(us[CHOOSE uid \in DOMAIN us : str(uid) = k])])

\* open(FILE, 'w') and json.dump that writes nothing at all.
write_never(file, content, d) == file

\* open(FILE, 'w') followed by json.dump: the file afterwards.  open may
\* raise and leave the file as it was; once open has truncated the file
\* a failing dump leaves an empty or partial text behind.
write(file, content, d) ==
    IF d = "ok" THEN content
    ELSE IF d = "open_fails" THEN file
    ELSE Malformed

\* DataManager.get_user(user_id) is not None
has_user(us, user_id) == user_id \in DOMAIN us

\* add_or_update_user that counts every grant from now, active or not.
add_or_update_user_from_now(us, user_id, username, hours, t) ==
    LET user0 == IF user_id \in DOMAIN us THEN us[user_id]
                 ELSE UserData(user_id, username)
        user2 == IF hours # None
                 THEN [user0 EXCEPT !.expires_at = t + hours,
                                    !.warning_sent = FALSE]
                 ELSE user0
    IN [uid \in DOMAIN us \cup {user_id} |->
            IF uid = user_id THEN user2 ELSE us[uid]]

\* add_or_update_user that adds the hours to any expiry it finds, lapsed
\* or not.
add_or_update_user_carry_over(us, user_id, username, hours, t) ==
    LET user0 == IF user_id \in DOMAIN us THEN us[user_id]
                 ELSE UserData(user_id, username)
        user2 == IF hours # None
                 THEN IF user0.expires_at # None
                      THEN [user0 EXCEPT !.expires_at = user0.expires_at + hours,
                                         !.warning_sent = FALSE]
                      ELSE [user0 EXCEPT !.expires_at = t + hours,
                                         !.warning_sent = FALSE]
                 ELSE user0
    IN [uid \in DOMAIN us \cup {user_id} |->
            IF uid = user_id THEN user2 ELSE us[uid]]

\* DataManager.add_or_update_user: the dict after the call.
add_or_update_user(us, user_id, username, hours, t) ==
    LET user0 == IF user_id \in DOMAIN us THEN us[user_id]
                 ELSE UserData(user_id, username)
        user1 == IF username # NoUsername
                 THEN [user0 EXCEPT !.username = username] ELSE user0
        user2 == IF hours # None
                 THEN IF user1.expires_at # None /\ user1.expires_at > t
                      THEN [user1 EXCEPT !.expires_at = user1.expires_at + hours,
                                         !.warning_sent = FALSE]
                      ELSE [user1 EXCEPT !.expires_at = t + hours,
                                         !.warning_sent = FALSE]
                 ELSE user1
    IN [uid \in DOMAIN us \cup {user_id} |->
            IF uid = user_id THEN user2 ELSE us[uid]]

\* Which path of add_or_update_user a grant takes: a new record, a record
\* with no expiry yet, an active record (extended) or a lapsed one.
grant_case(us, user_id, t) ==
    IF ~(user_id \in DOMAIN us) THEN "created"
    ELSE IF us[user_id].expires_at = None THEN "unset"
    ELSE IF us[user_id].expires_at > t THEN "active"
    ELSE "lapsed"

\* A store kept as a list of records, to which every grant appends.
keys_after_add_appends(order, user_id) == Append(order, user_id)

\* The keys of the dict after add_or_update_user, in insertion order.
keys_after_add(order, user_id) ==
    IF user_id \in Range(order) THEN order ELSE Append(order, user_id)

\* remove_user that leaves the record where it is.
remove_user_keeps(us, user_id) == us

\* DataManager.remove_user: the dict after the call.
remove_user(us, user_id) ==
    [uid \in DOMAIN us \ {user_id} |-> us[uid]]

keys_after_remove(order, user_id) == RemoveFirst(order, user_id)

\* has_valid_access that still counts the instant of expiry as valid.
has_valid_access_inclusive(us, user_id, t) ==
    IF ~has_user(us, user_id) \/ us[user_id].expires_at = None
    THEN FALSE
    ELSE us[user_id].expires_at >= t

\* DataManager.has_valid_access
has_valid_access(us, user_id, t) ==
    IF ~has_user(us, user_id) \/ us[user_id].expires_at = None
    THEN FALSE
    ELSE us[user_id].expires_at > t

\* ------------------------------------------------------------ VIPManager
is_vip(vips, user_id) == user_id \in Range(vips)

\* add_vip that appends without looking.
add_vip_appends(vips, user_id) == Append(vips, user_id)

add_vip(vips, user_id) ==
    IF ~(user_id \in Range(vips)) THEN Append(vips, user_id) ELSE vips

remove_vip(vips, user_id) ==
    IF user_id \in Range(vips) THEN RemoveFirst(vips, user_id) ELSE vips

is_special_user(vips, user_id) == is_vip(vips, user_id)

is_admin(user_id) == user_id \in ADMIN_IDS

\* -------------------------------------------------------- message texts
Digits == {"0", "1", "2", "3", "4", "5", "6", "7", "8", "9"}

DigitVal(c) ==
    CASE c = "0" -> 0 [] c = "1" -> 1 [] c = "2" -> 2 [] c = "3" -> 3
      [] c = "4" -> 4 [] c = "5" -> 5 [] c = "6" -> 6 [] c = "7" -> 7
      [] c = "8" -> 8 [] c = "9" -> 9

\* str.isdigit
isdigit(text) == text # <<>> /\ \A i \in 1..Len(text) : text[i] \in Digits

\* int(text) for a text of digits
RECURSIVE int(_)
int(text) ==
    IF text = <<>> THEN 0
    ELSE 10 * int(SubSeq(text, 1, Len(text) - 1)) + DigitVal(text[Len(text)])

\* float(text): ok is FALSE where Python raises ValueError.
float(text) ==
    IF isdigit(text) THEN [ok |-> TRUE, value |-> int(text)]
    ELSE IF Len(text) > 1 /\ text[1] = "-" /\ isdigit(Tail(text))
         THEN [ok |-> TRUE, value |-> 0 - int(Tail(text))]
    ELSE IF Len(text) > 1 /\ text[1] = "+" /\ isdigit(Tail(text))
         THEN [ok |-> TRUE, value |-> int(Tail(text))]
    ELSE [ok |-> FALSE, value |-> None]

\* resolve_user_identifier: the user_id of the pair it returns (the
\* username of the pair is always None).
resolve_user_identifier(identifier) ==
    IF isdigit(identifier) THEN int(identifier) ELSE None

\* Python truthiness of an Optional[int]: `not user_id`.
falsy(v) == v = None \/ v = 0

\* ------------------------------------------------------------ the files
\* datetime.fromisoformat
fromisoformat(text) == int(Tail(text))

\* from_dict that leaves warning_sent as the constructor set it.
from_dict_forgets_flag(data) ==
    LET user == UserData(data.user_id, data.username) IN
    [user EXCEPT !.expires_at = IF data.expires_at # Null /\ data.expires_at # <<>>
                                THEN fromisoformat(data.expires_at)
                                ELSE None]

\* UserData.from_dict
from_dict(data) ==
    LET user == UserData(data.user_id, data.username) IN
    [user EXCEPT !.expires_at = IF data.expires_at # Null /\ data.expires_at # <<>>
                                THEN fromisoformat(data.expires_at)
                                ELSE None,
                 !.warning_sent = data.warning_sent]

\* DataManager.__init__ and load_data: the dict after startup.  A file
\* that is not there, or that makes json.load or from_dict raise, leaves
\* the empty dict of __init__.
load_data(file) ==
    IF file.kind = "json"
    THEN [uid \in { int(k) : k \in DOMAIN file.data } |->
             from_dict(file.data[str(uid)])]
    ELSE <<>>

\* VIPManager.save_data: the list as JSON.
save_vip(vips) == Json(vips)

\* VIPManager.__init__ and load_data
load_vip(file) == IF file.kind = "json" THEN file.data ELSE <<>>

\* ----------------------------------------------------- history records
\* One handler step: the Bot API calls it made, those of them that
\* raised, and what it came to.
EvF(op, uid, hours, calls, result, notice, failed) ==
    [op |-> op, uid |-> uid, hours |-> hours, calls |-> calls,
     result |-> result, notice |-> notice, failed |-> failed]

Ev(op, uid, hours, calls, result, notice) ==
    EvF(op, uid, hours, calls, result, notice, {})

\* The notices of a step that raised.
Failed(userOk, adminOk) ==
    (IF userOk THEN {} ELSE {"send_message_user"})
        \cup (IF adminOk THEN {} ELSE {"send_message_admin"})

ClearedData == [user_id |-> None, action |-> "none"]

\* --------------------------------------------------------------- sweeper
\* The object a snapshot entry refers to: the stored UserData, or the
\* object as it was when its record was removed from the dict.
Obj(e, us) == IF e.det = <<>> THEN us[e.uid] ELSE e.det[1]

\* The loop body without the allowlist test before send_warning.
Classify_warns_vip(e, us, vips, t) ==
    LET user == Obj(e, us) IN
    IF user.expires_at = None THEN "skip"
    ELSE IF user.expires_at <= t THEN "kick"
    ELSE IF user.expires_at - t <= WARNING_HOURS /\ ~user.warning_sent
         THEN IF has_user(us, e.uid) /\ us[e.uid].expires_at # None
              THEN "warn" ELSE "skip"
    ELSE "skip"

\* What one pass of the loop body of check_users_task does with an entry,
\* up to its first Bot API call.
Classify(e, us, vips, t) ==
    LET user == Obj(e, us) IN
    IF user.expires_at = None THEN "skip"
    ELSE IF user.expires_at <= t THEN "kick"
    ELSE IF /\ user.expires_at - t <= WARNING_HOURS
            /\ ~user.warning_sent
            /\ ~is_special_user(vips, e.uid)
         THEN \* send_warning returns at once when get_user finds nothing
              IF has_user(us, e.uid) /\ us[e.uid].expires_at # None
              THEN "warn" ELSE "skip"
    ELSE "skip"

RECURSIVE SkipIdle(_, _, _, _)
SkipIdle(q, us, vips, t) ==
    IF q = <<>> THEN <<>>
    ELSE IF Classify(Head(q), us, vips, t) = "skip"
         THEN SkipIdle(Tail(q), us, vips, t)
    ELSE q

\* The loop of check_users_task run up to its next suspension.
SweepNext(q, us, vips, t) ==
    LET q2 == SkipIdle(q, us, vips, t) IN
    IF q2 = <<>> THEN [pc |-> "sleep", cur |-> None, queue |-> <<>>]
    ELSE [pc |-> IF Classify(Head(q2), us, vips, t) = "kick"
                 THEN "ban" ELSE "warn",
          cur |-> Head(q2).uid, queue |-> Tail(q2)]

\* get_all_users(): references to the stored objects, in dict order.
get_all_users(order) ==
    [i \in 1..Len(order) |-> [uid |-> order[i], det |-> <<>>]]

\* A record leaves the dict: the references the sweeper still holds to
\* it keep the object as it is.
Detach(q, us, user_id) ==
    [i \in 1..Len(q) |->
        IF q[i].uid = user_id /\ q[i].det = <<>> /\ user_id \in DOMAIN us
        THEN [q[i] EXCEPT !.det = <<us[user_id]>>] ELSE q[i]]

\* Bot.ban_chat_member succeeded: the user is no member any more.
banned(c, user_id) ==
    IF c[user_id] = "member" THEN [c EXCEPT ![user_id] = "out"] ELSE c

\* ------------------------------------------------------------------ Init
\* No DATA_FILE and no VIP_FILE yet: both managers start empty.
Init ==
    /\ users = <<>>
    /\ keyOrder = <<>>
    /\ dataFile = Absent
    /\ disk = "ok"
    /\ vip_users = <<>>
    /\ vipFile = Absent
    /\ now = 0
    /\ fsmState = [a \in ADMIN_IDS |-> "none"]
    /\ fsmData = [a \in ADMIN_IDS |-> ClearedData]
    /\ chat = [u \in UserIds |-> "out"]
    /\ swPc = "sleep"
    /\ swNow = 0
    /\ swQueue = <<>>
    /\ swCur = None
    /\ swDet = FALSE
    /\ warned = [u \in UserIds |-> 0]
    /\ revoked = {}
    /\ last = Ev("init", None, None, {}, "none", None)

sweeperVars == <<swPc, swNow, swQueue, swCur, swDet>>
storeVars == <<users, keyOrder, dataFile, disk>>
vipVars == <<vip_users, vipFile>>
fsmVars == <<fsmState, fsmData>>

\* The clock advances.
Tick ==
    /\ now < MaxNow
    /\ now' = now + 1
    /\ last' = Ev("tick", None, None, {}, "none", None)
    /\ UNCHANGED <<storeVars, vipVars, fsmVars, chat, sweeperVars, warned,
                   revoked>>

\* ------------------------------------------------------- admin handlers
\* The model keeps expiry instants within MaxExpiry.
GrantInBound(user_id, hours) ==
    add_or_update_user(users, user_id, NoUsername, hours, now)[user_id].expires_at
        <= MaxExpiry

\* The store after data_manager.add_or_update_user(user_id, hours=hours).
Grant(user_id, hours) ==
    /\ users' = add_or_update_user(users, user_id, NoUsername, hours, now)
    /\ keyOrder' = keys_after_add(keyOrder, user_id)
    /\ dataFile' = write(dataFile, save_data(users'), disk)
    /\ disk' = disk
    /\ warned' = IF hours # None THEN [warned EXCEPT ![user_id] = 0] ELSE warned
    /\ revoked' = revoked \ {user_id}

\* /add and the "add_new_user" button: ask for a user id.
cmd_add(a) ==
    /\ is_admin(a)
    /\ fsmState' = [fsmState EXCEPT ![a] = "waiting_for_user_id"]
    /\ last' = Ev("cmd_add", None, None, {}, "prompt", None)
    /\ UNCHANGED <<storeVars, vipVars, fsmData, now, chat, sweeperVars,
                   warned, revoked>>

\* /cancel: state.clear()
cmd_cancel(a) ==
    /\ fsmState' = [fsmState EXCEPT ![a] = "none"]
    /\ fsmData' = [fsmData EXCEPT ![a] = ClearedData]
    /\ last' = Ev("cmd_cancel", None, None, {}, "cancelled", None)
    /\ UNCHANGED <<storeVars, vipVars, now, chat, sweeperVars, warned,
                   revoked>>

\* A message while waiting_for_user_id.
process_user_id(a, text) ==
    /\ fsmState[a] = "waiting_for_user_id"
    /\ is_admin(a)
    /\ LET user_id == resolve_user_identifier(text) IN
       IF falsy(user_id)
       THEN /\ last' = Ev("process_user_id", user_id, None, {},
                          "bad_format", None)
            /\ UNCHANGED <<storeVars, fsmVars, warned, revoked>>
       ELSE IF is_special_user(vip_users, user_id)
       THEN /\ fsmState' = [fsmState EXCEPT ![a] = "none"]
            /\ fsmData' = [fsmData EXCEPT ![a] = ClearedData]
            /\ last' = Ev("process_user_id", user_id, None,
                          {}, "already_vip", None)
            /\ UNCHANGED <<storeVars, warned, revoked>>
       ELSE /\ Grant(user_id, None)
            /\ fsmState' = [fsmState EXCEPT ![a] = "none"]
            /\ fsmData' = [fsmData EXCEPT ![a] = ClearedData]
            /\ last' = Ev("process_user_id", user_id, None,
                          {}, "added", None)
    /\ UNCHANGED <<vipVars, now, chat, sweeperVars>>

\* The "custom_time:<id>" button.
callback_custom_time(a, user_id) ==
    /\ is_admin(a)
    /\ fsmData' = [fsmData EXCEPT ![a].user_id = user_id]
    /\ fsmState' = [fsmState EXCEPT ![a] = "waiting_for_custom_hours"]
    /\ last' = Ev("callback_custom_time", user_id, None, {}, "prompt",
                  None)
    /\ UNCHANGED <<storeVars, vipVars, now, chat, sweeperVars, warned,
                   revoked>>

\* process_custom_hours that ends the prompt on a duration that is not
\* positive.
process_custom_hours_clears(a, text, notifyOk) ==
    /\ fsmState[a] = "waiting_for_custom_hours"
    /\ is_admin(a)
    /\ LET hours == float(text)
           user_id == fsmData[a].user_id IN
       IF ~hours.ok
       THEN /\ notifyOk
            /\ last' = Ev("process_custom_hours", None, None, {},
                          "bad_format", None)
            /\ UNCHANGED <<storeVars, fsmVars, warned, revoked>>
       ELSE IF hours.value <= 0 \/ falsy(user_id)
       THEN /\ notifyOk
            /\ fsmState' = [fsmState EXCEPT ![a] = "none"]
            /\ fsmData' = [fsmData EXCEPT ![a] = ClearedData]
            /\ last' = Ev("process_custom_hours", None, hours.value,
                          {}, "invalid_duration", None)
            /\ UNCHANGED <<storeVars, warned, revoked>>
       ELSE /\ GrantInBound(user_id, hours.value)
            /\ Grant(user_id, hours.value)
            /\ fsmState' = [fsmState EXCEPT ![a] = "none"]
            /\ fsmData' = [fsmData EXCEPT ![a] = ClearedData]
            /\ last' = EvF("process_custom_hours", user_id, hours.value,
                           {"send_message_user"},
                           grant_case(users, user_id, now), None,
                           Failed(notifyOk, TRUE))
    /\ UNCHANGED <<vipVars, now, chat, sweeperVars>>

\* A message while waiting_for_custom_hours.
process_custom_hours(a, text, notifyOk) ==
    /\ fsmState[a] = "waiting_for_custom_hours"
    /\ is_admin(a)
    /\ LET hours == float(text)
           user_id == fsmData[a].user_id IN
       IF ~hours.ok
       THEN /\ notifyOk
            /\ last' = Ev("process_custom_hours", None, None, {},
                          "bad_format", None)
            /\ UNCHANGED <<storeVars, fsmVars, warned, revoked>>
       ELSE IF hours.value <= 0
       THEN /\ notifyOk
            /\ last' = Ev("process_custom_hours", None, hours.value,
                          {}, "invalid_duration", None)
            /\ UNCHANGED <<storeVars, fsmVars, warned, revoked>>
       ELSE IF falsy(user_id)
       THEN /\ notifyOk
            /\ fsmState' = [fsmState EXCEPT ![a] = "none"]
            /\ fsmData' = [fsmData EXCEPT ![a] = ClearedData]
            /\ last' = Ev("process_custom_hours", None, hours.value,
                          {}, "no_user", None)
            /\ UNCHANGED <<storeVars, warned, revoked>>
       ELSE /\ GrantInBound(user_id, hours.value)
            /\ Grant(user_id, hours.value)
            /\ fsmState' = [fsmState EXCEPT ![a] = "none"]
            /\ fsmData' = [fsmData EXCEPT ![a] = ClearedData]
            /\ last' = EvF("process_custom_hours", user_id, hours.value,
                           {"send_message_user"},
                           grant_case(users, user_id, now), None,
                           Failed(notifyOk, TRUE))
    /\ UNCHANGED <<vipVars, now, chat, sweeperVars>>

\* The "add_time:<id>:<hours>" button.
callback_add_time(a, user_id, hours, notifyOk) ==
    /\ is_admin(a)
    /\ GrantInBound(user_id, hours)
    /\ Grant(user_id, hours)
    /\ last' = EvF("callback_add_time", user_id, hours,
                   {"send_message_user"}, grant_case(users, user_id, now),
                   None, Failed(notifyOk, TRUE))
    /\ UNCHANGED <<vipVars, fsmVars, now, chat, sweeperVars>>

\* The "remove_user:<id>" button: ban and unban, then delete the record.
\* A failed ban or unban is logged and the record is deleted all the same.
callback_remove_user(a, user_id, banOk, unbanOk) ==
    /\ is_admin(a)
    /\ IF has_user(users, user_id)
       THEN /\ chat' = IF banOk THEN banned(chat, user_id) ELSE chat
            /\ users' = remove_user(users, user_id)
            /\ keyOrder' = keys_after_remove(keyOrder, user_id)
            /\ dataFile' = write(dataFile, save_data(users'), disk)
            /\ disk' = disk
            /\ swQueue' = Detach(swQueue, users, user_id)
            /\ swDet' = (swDet \/ (swPc = "warn" /\ swCur = user_id))
            /\ last' = Ev("callback_remove_user", user_id, None,
                          IF banOk THEN {"ban_chat_member", "unban_chat_member"}
                          ELSE {"ban_chat_member"},
                          "removed", None)
       ELSE /\ banOk /\ unbanOk
            /\ last' = Ev("callback_remove_user", user_id, None, {},
                          "not_found", None)
            /\ UNCHANGED <<storeVars, chat, swQueue, swDet>>
    /\ UNCHANGED <<vipVars, fsmVars, now, swPc, swNow, swCur, warned,
                   revoked>>

\* The "add_vip" and "remove_vip" buttons: ask for the id.
callback_add_vip(a) ==
    /\ is_admin(a)
    /\ fsmData' = [fsmData EXCEPT ![a].action = "add"]
    /\ fsmState' = [fsmState EXCEPT ![a] = "waiting_for_vip_id"]
    /\ last' = Ev("callback_add_vip", None, None, {}, "prompt", None)
    /\ UNCHANGED <<storeVars, vipVars, now, chat, sweeperVars, warned,
                   revoked>>

callback_remove_vip(a) ==
    /\ is_admin(a)
    /\ fsmData' = [fsmData EXCEPT ![a].action = "remove"]
    /\ fsmState' = [fsmState EXCEPT ![a] = "waiting_for_vip_id"]
    /\ last' = Ev("callback_remove_vip", None, None, {}, "prompt", None)
    /\ UNCHANGED <<storeVars, vipVars, now, chat, sweeperVars, warned,
                   revoked>>

\* A message while waiting_for_vip_id.
process_vip_id(a, text) ==
    /\ fsmState[a] = "waiting_for_vip_id"
    /\ is_admin(a)
    /\ LET user_id == resolve_user_identifier(text)
           action == fsmData[a].action IN
       IF falsy(user_id)
       THEN /\ last' = Ev("process_vip_id", user_id, None, {},
                          "bad_format", None)
            /\ UNCHANGED <<vipVars, fsmVars>>
       ELSE /\ vip_users' = IF action = "add"
                            THEN add_vip(vip_users, user_id)
                            ELSE IF action = "remove"
                            THEN remove_vip(vip_users, user_id)
                            ELSE vip_users
            /\ vipFile' = IF vip_users' # vip_users
                          THEN write(vipFile, save_vip(vip_users'), disk)
                          ELSE vipFile
            /\ fsmState' = [fsmState EXCEPT ![a] = "none"]
            /\ fsmData' = [fsmData EXCEPT ![a] = ClearedData]
            /\ last' = Ev("process_vip_id", user_id, None,
                          {}, action, None)
    /\ UNCHANGED <<storeVars, now, chat, sweeperVars, warned, revoked>>

\* ---------------------------------------------------------- join requests
\* A decision that takes any record with an expiry for valid access.
decide_any_record(vips, us, user_id, t) ==
    IF is_special_user(vips, user_id) THEN "Vip"
    ELSE IF has_user(us, user_id) /\ us[user_id].expires_at # None
         THEN "Active"
    ELSE "Denied"

\* The three-way decision of handle_join_request.
decide(vips, us, user_id, t) ==
    IF is_special_user(vips, user_id) THEN "Vip"
    ELSE IF has_valid_access(us, user_id, t) THEN "Active"
    ELSE "Denied"

\* What handle_join_request sends for a decision: the Bot API calls, the
\* id its admin notice spells out, and whether the request is approved.
join_outcome(decision, user_id, approveOk) ==
    IF decision = "Vip"
    THEN IF approveOk
         THEN [calls |-> {"approve", "send_message_admin"},
               notice |-> user_id, approved |-> TRUE]
         ELSE [calls |-> {"approve"}, notice |-> None, approved |-> FALSE]
    ELSE IF decision = "Active"
    THEN IF approveOk
         THEN [calls |-> {"approve", "send_message_admin"},
               notice |-> None, approved |-> TRUE]
         ELSE [calls |-> {"approve"}, notice |-> None, approved |-> FALSE]
    ELSE [calls |-> {"send_message_admin"}, notice |-> user_id,
          approved |-> FALSE]

\* handle_join_request that records the requester in the store.
handle_join_request_records(user_id, approveOk) ==
    /\ chat[user_id] # "member"
    /\ LET decision == decide(vip_users, users, user_id, now)
           out == join_outcome(decision, user_id, approveOk) IN
       /\ chat' = [chat EXCEPT ![user_id] =
                      IF out.approved THEN "member" ELSE "pending"]
       /\ last' = Ev("handle_join_request", user_id, None,
                     out.calls, decision, out.notice)
    /\ users' = add_or_update_user(users, user_id, "bob", None, now)
    /\ keyOrder' = keys_after_add(keyOrder, user_id)
    /\ dataFile' = write(dataFile, save_data(users'), disk)
    /\ UNCHANGED <<disk, vipVars, fsmVars, now, sweeperVars, warned,
                   revoked>>

\* A join request of user_id arrives and handle_join_request runs.
handle_join_request(user_id, approveOk) ==
    /\ chat[user_id] # "member"
    /\ LET decision == decide(vip_users, users, user_id, now)
           out == join_outcome(decision, user_id, approveOk) IN
       /\ chat' = [chat EXCEPT ![user_id] =
                      IF out.approved THEN "member" ELSE "pending"]
       /\ last' = Ev("handle_join_request", user_id, None,
                     out.calls, decision, out.notice)
    /\ UNCHANGED <<storeVars, vipVars, fsmVars, now, sweeperVars, warned,
                   revoked>>

\* The reply of /info: which of the three texts the sender gets.
info_reply(vips, us, user_id, t) ==
    IF is_special_user(vips, user_id) THEN "Vip"
    ELSE IF has_user(us, user_id) /\ us[user_id].expires_at # None
         THEN IF us[user_id].expires_at > t THEN "Active" ELSE "Denied"
    ELSE "Denied"

\* /info, /status sent by user_id.
cmd_info(user_id) ==
    /\ last' = Ev("cmd_info", user_id, None, {"answer"},
                  info_reply(vip_users, users, user_id, now), None)
    /\ UNCHANGED <<storeVars, vipVars, fsmVars, now, chat, sweeperVars,
                   warned, revoked>>

\* ------------------------------------------------------- check_users_task
\* The sweeper runs on to its next suspension point.
SweepTo(nxt) ==
    /\ swPc' = nxt.pc
    /\ swCur' = nxt.cur
    /\ swQueue' = nxt.queue
    /\ swDet' = FALSE
    /\ warned' = IF nxt.pc = "warn"
                 THEN [warned EXCEPT ![nxt.cur] = @ + 1] ELSE warned

\* asyncio.sleep returns: a tick starts with a snapshot of the store.
check_users_task ==
    /\ swPc = "sleep"
    /\ LET nxt == SweepNext(get_all_users(keyOrder), users, vip_users, now) IN
       /\ swNow' = IF nxt.pc = "sleep" THEN 0 ELSE now
       /\ SweepTo(nxt)
    /\ last' = Ev("check_users_task", None, None, {}, "tick", None)
    /\ UNCHANGED <<storeVars, vipVars, fsmVars, now, chat, revoked>>

\* kick_user that lets the exception of a failed ban out into the loop,
\* whose own except then ends the tick.
kick_user_ban_aborts(ok) ==
    /\ swPc = "ban"
    /\ IF ok
       THEN /\ chat' = banned(chat, swCur)
            /\ swPc' = "unban"
            /\ UNCHANGED <<swQueue, swCur, swDet, warned>>
       ELSE /\ SweepTo([pc |-> "sleep", cur |-> None, queue |-> <<>>])
            /\ UNCHANGED chat
    /\ last' = Ev("kick_user", swCur, None, {"ban_chat_member"},
                  IF ok THEN "banned" ELSE "failed", None)
    /\ UNCHANGED <<storeVars, vipVars, fsmVars, now, swNow, revoked>>

\* kick_user whose except branch deletes the record of the user it could
\* not ban.
kick_user_ban_deletes(ok) ==
    /\ swPc = "ban"
    /\ IF ok
       THEN /\ chat' = banned(chat, swCur)
            /\ swPc' = "unban"
            /\ UNCHANGED <<swQueue, swCur, swDet, warned, storeVars>>
       ELSE /\ users' = remove_user(users, swCur)
            /\ keyOrder' = keys_after_remove(keyOrder, swCur)
            /\ dataFile' = write(dataFile, save_data(users'), disk)
            /\ SweepTo(SweepNext(swQueue, users', vip_users, swNow))
            /\ UNCHANGED <<chat, disk>>
    /\ last' = Ev("kick_user", swCur, None, {"ban_chat_member"},
                  IF ok THEN "banned" ELSE "failed", None)
    /\ UNCHANGED <<vipVars, fsmVars, now, swNow, revoked>>

\* kick_user that lets the exception of a failed ban out of a sweeper whose
\* try is around its loop: the task ends and no tick follows.
kick_user_ban_ends_task(ok) ==
    /\ swPc = "ban"
    /\ IF ok
       THEN /\ chat' = banned(chat, swCur)
            /\ swPc' = "unban"
            /\ UNCHANGED <<swQueue, swCur, swDet, warned>>
       ELSE /\ SweepTo([pc |-> "ended", cur |-> None, queue |-> <<>>])
            /\ UNCHANGED chat
    /\ last' = Ev("kick_user", swCur, None, {"ban_chat_member"},
                  IF ok THEN "banned" ELSE "failed", None)
    /\ UNCHANGED <<storeVars, vipVars, fsmVars, now, swNow, revoked>>

\* kick_user: bot.ban_chat_member returns or raises.
kick_user_ban(ok) ==
    /\ swPc = "ban"
    /\ IF ok
       THEN /\ chat' = banned(chat, swCur)
            /\ swPc' = "unban"
            /\ UNCHANGED <<swQueue, swCur, swDet, warned>>
       ELSE /\ SweepTo(SweepNext(swQueue, users, vip_users, swNow))
            /\ UNCHANGED chat
    /\ last' = Ev("kick_user", swCur, None, {"ban_chat_member"},
                  IF ok THEN "banned" ELSE "failed", None)
    /\ UNCHANGED <<storeVars, vipVars, fsmVars, now, swNow, revoked>>

\* kick_user: bot.unban_chat_member returns or raises.
kick_user_unban(ok) ==
    /\ swPc = "unban"
    /\ IF ok
       THEN /\ swPc' = "notify"
            /\ UNCHANGED <<swQueue, swCur, swDet, warned>>
       ELSE SweepTo(SweepNext(swQueue, users, vip_users, swNow))
    /\ last' = Ev("kick_user", swCur, None, {"unban_chat_member"},
                  IF ok THEN "unbanned" ELSE "failed", None)
    /\ UNCHANGED <<storeVars, vipVars, fsmVars, now, chat, swNow, revoked>>

\* kick_user that takes the revoked user off the allowlist as well.
kick_user_remove_drops_vip(userOk, adminOk) ==
    /\ swPc = "notify"
    /\ users' = remove_user(users, swCur)
    /\ keyOrder' = keys_after_remove(keyOrder, swCur)
    /\ dataFile' = IF has_user(users, swCur)
                   THEN write(dataFile, save_data(users'), disk)
                   ELSE dataFile
    /\ disk' = disk
    /\ vip_users' = remove_vip(vip_users, swCur)
    /\ vipFile' = IF is_vip(vip_users, swCur)
                  THEN write(vipFile, save_vip(vip_users'), disk)
                  ELSE vipFile
    /\ revoked' = revoked \cup {swCur}
    /\ SweepTo(SweepNext(swQueue, users', vip_users', swNow))
    /\ last' = EvF("kick_user", swCur, None,
                   {"send_message_user", "send_message_admin"}, "removed",
                   swCur, Failed(userOk, adminOk))
    /\ UNCHANGED <<fsmVars, now, chat, swNow>>

\* kick_user whose notices are not guarded: one that raises takes the
\* coroutine to its outer except, past remove_user.
kick_user_remove_needs_notice(userOk, adminOk) ==
    /\ swPc = "notify"
    /\ IF userOk /\ adminOk
       THEN /\ users' = remove_user(users, swCur)
            /\ keyOrder' = keys_after_remove(keyOrder, swCur)
            /\ dataFile' = IF has_user(users, swCur)
                           THEN write(dataFile, save_data(users'), disk)
                           ELSE dataFile
            /\ revoked' = revoked \cup {swCur}
       ELSE UNCHANGED <<users, keyOrder, dataFile, revoked>>
    /\ disk' = disk
    /\ SweepTo(SweepNext(swQueue, users', vip_users, swNow))
    /\ last' = EvF("kick_user", swCur, None,
                   {"send_message_user", "send_message_admin"},
                   IF userOk /\ adminOk THEN "removed" ELSE "failed",
                   swCur, Failed(userOk, adminOk))
    /\ UNCHANGED <<vipVars, fsmVars, now, chat, swNow>>

\* kick_user: the notices to the user and the admins are through (sent or
\* failed); the record is deleted and the loop goes on.
kick_user_remove(userOk, adminOk) ==
    /\ swPc = "notify"
    /\ users' = remove_user(users, swCur)
    /\ keyOrder' = keys_after_remove(keyOrder, swCur)
    /\ dataFile' = IF has_user(users, swCur)
                   THEN write(dataFile, save_data(users'), disk)
                   ELSE dataFile
    /\ disk' = disk
    /\ revoked' = revoked \cup {swCur}
    /\ SweepTo(SweepNext(swQueue, users', vip_users, swNow))
    /\ last' = EvF("kick_user", swCur, None,
                   {"send_message_user", "send_message_admin"}, "removed",
                   swCur, Failed(userOk, adminOk))
    /\ UNCHANGED <<vipVars, fsmVars, now, chat, swNow>>

\* send_warning that forgets to set the flag.
send_warning_mark_forgets(us, user_id, detached) == us

\* send_warning: `user.warning_sent = True` on the object get_user gave.
send_warning_mark(us, user_id, detached) ==
    IF detached THEN us
    ELSE [us EXCEPT ![user_id].warning_sent = TRUE]

\* send_warning: the warnings to the user and the admins are through; the
\* flag is set and the store saved.
send_warning(userOk, adminOk) ==
    /\ swPc = "warn"
    /\ users' = send_warning_mark(users, swCur, swDet)
    /\ dataFile' = write(dataFile, save_data(users'), disk)
    /\ disk' = disk
    /\ SweepTo(SweepNext(swQueue, users', vip_users, swNow))
    /\ last' = EvF("send_warning", swCur, None,
                   {"send_message_user", "send_message_admin"},
                   IF swDet THEN "stale" ELSE "flag_set", swCur,
                   Failed(userOk, adminOk))
    /\ UNCHANGED <<keyOrder, vipVars, fsmVars, now, chat, swNow, revoked>>

\* ------------------------------------------------------------------ Next
\* The steps other than the add_time button.  The notices of these steps
\* arrive; SpecNotices below lets them fail.
OtherSteps ==
    \/ Tick
    \/ \E a \in ADMIN_IDS : cmd_add(a)
    \/ \E a \in ADMIN_IDS : cmd_cancel(a)
    \/ \E a \in ADMIN_IDS, text \in Texts : process_user_id(a, text)
    \/ \E a \in ADMIN_IDS, u \in InputIds : callback_custom_time(a, u)
    \/ \E a \in ADMIN_IDS, text \in Texts : process_custom_hours(a, text, TRUE)
    \/ \E a \in ADMIN_IDS, u \in InputIds, banOk \in BOOLEAN, unbanOk \in BOOLEAN :
          callback_remove_user(a, u, banOk, unbanOk)
    \/ \E a \in ADMIN_IDS : callback_add_vip(a)
    \/ \E a \in ADMIN_IDS : callback_remove_vip(a)
    \/ \E a \in ADMIN_IDS, text \in Texts : process_vip_id(a, text)
    \/ \E u \in InputIds, approveOk \in BOOLEAN : handle_join_request(u, approveOk)
    \/ \E u \in InputIds : cmd_info(u)
    \/ check_users_task
    \/ \E ok \in BOOLEAN : kick_user_ban(ok)
    \/ \E ok \in BOOLEAN : kick_user_unban(ok)
    \/ kick_user_remove(TRUE, TRUE)
    \/ send_warning(TRUE, TRUE)

Next ==
    \/ \E a \in ADMIN_IDS, u \in InputIds, h \in ButtonHours :
          callback_add_time(a, u, h, TRUE)
    \/ OtherSteps

Spec == Init /\ [][Next]_vars

\* The same program when every add_time button carries hours > 0.
NextValidHours ==
    \/ \E a \in ADMIN_IDS, u \in InputIds, h \in {x \in ButtonHours : x > 0} :
          callback_add_time(a, u, h, TRUE)
    \/ OtherSteps

SpecValidHours == Init /\ [][NextValidHours]_vars

\* The grants, the removals and the sweeper when any notice can fail.
NextNotices ==
    \/ Tick
    \/ \E a \in ADMIN_IDS, u \in InputIds, h \in ButtonHours,
             notifyOk \in BOOLEAN :
          callback_add_time(a, u, h, notifyOk)
    \/ \E a \in ADMIN_IDS, u \in InputIds : callback_custom_time(a, u)
    \/ \E a \in ADMIN_IDS, text \in Texts, notifyOk \in BOOLEAN :
          process_custom_hours(a, text, notifyOk)
    \/ \E a \in ADMIN_IDS, u \in InputIds, banOk \in BOOLEAN, unbanOk \in BOOLEAN :
          callback_remove_user(a, u, banOk, unbanOk)
    \/ check_users_task
    \/ \E ok \in BOOLEAN : kick_user_ban(ok)
    \/ \E ok \in BOOLEAN : kick_user_unban(ok)
    \/ \E userOk \in BOOLEAN, adminOk \in BOOLEAN :
          kick_user_remove(userOk, adminOk)
    \/ \E userOk \in BOOLEAN, adminOk \in BOOLEAN :
          send_warning(userOk, adminOk)

SpecNotices == Init /\ [][NextNotices]_vars

\* ------------------------------------------- the stores on their own
\* The usernames a record can carry (None among them), and the records
\* and dicts built from them.
Usernames == {NoUsername, "bob"}

Records(user_id) ==
    { [user_id |-> user_id, username |-> n, expires_at |-> e,
       warning_sent |-> w] :
          n \in Usernames, e \in {None} \cup 0..MaxExpiry, w \in BOOLEAN }

Stores ==
    { <<>> }
    \cup { (1 :> r1) : r1 \in Records(1) }
    \cup { (2 :> r2) : r2 \in Records(2) }
    \cup { (1 :> r1) @@ (2 :> r2) : r1 \in Records(1), r2 \in Records(2) }

\* The ids a caller passes to the VIPManager.
VipIds == {1, 2, 3}

InitStores ==
    /\ users \in Stores
    /\ keyOrder = IF DOMAIN users = {1, 2} THEN <<1, 2>>
                  ELSE IF DOMAIN users = {1} THEN <<1>>
                  ELSE IF DOMAIN users = {2} THEN <<2>>
                  ELSE <<>>
    /\ dataFile = Absent
    /\ disk = "ok"
    /\ vip_users = <<>>
    /\ vipFile = Absent
    /\ now = 0
    /\ fsmState = [a \in ADMIN_IDS |-> "none"]
    /\ fsmData = [a \in ADMIN_IDS |-> ClearedData]
    /\ chat = [u \in UserIds |-> "out"]
    /\ swPc = "sleep"
    /\ swNow = 0
    /\ swQueue = <<>>
    /\ swCur = None
    /\ swDet = FALSE
    /\ warned = [u \in UserIds |-> 0]
    /\ revoked = {}
    /\ last = Ev("init", None, None, {}, "none", None)

\* data_manager.save_data()
DataManager_save_data ==
    /\ dataFile' = write(dataFile, save_data(users), disk)
    /\ last' = Ev("save_data", None, None, {}, "saved", None)
    /\ UNCHANGED <<users, keyOrder, disk, vipVars, fsmVars, now, chat,
                   sweeperVars, warned, revoked>>

\* DataManager(): the dict is built anew from the file.
DataManager_load_data ==
    /\ users' = load_data(dataFile)
    /\ keyOrder' = SelectSeq(keyOrder, LAMBDA k : k \in DOMAIN users')
    /\ last' = Ev("load_data", None, None, {}, "loaded", None)
    /\ UNCHANGED <<dataFile, disk, vipVars, fsmVars, now, chat,
                   sweeperVars, warned, revoked>>

\* vip_manager.add_vip(user_id)
VIPManager_add_vip(user_id) ==
    /\ vip_users' = add_vip(vip_users, user_id)
    /\ vipFile' = IF ~is_vip(vip_users, user_id)
                  THEN write(vipFile, save_vip(vip_users'), disk)
                  ELSE vipFile
    /\ last' = Ev("add_vip", user_id, None, {},
                  IF is_vip(vip_users, user_id) THEN "present" ELSE "added",
                  None)
    /\ UNCHANGED <<storeVars, fsmVars, now, chat, sweeperVars, warned,
                   revoked>>

\* vip_manager.remove_vip(user_id)
VIPManager_remove_vip(user_id) ==
    /\ vip_users' = remove_vip(vip_users, user_id)
    /\ vipFile' = IF is_vip(vip_users, user_id)
                  THEN write(vipFile, save_vip(vip_users'), disk)
                  ELSE vipFile
    /\ last' = Ev("remove_vip", user_id, None, {},
                  IF is_vip(vip_users, user_id) THEN "removed" ELSE "absent",
                  None)
    /\ UNCHANGED <<storeVars, fsmVars, now, chat, sweeperVars, warned,
                   revoked>>

NextStores ==
    \/ DataManager_save_data
    \/ DataManager_load_data
    \/ \E u \in VipIds : VIPManager_add_vip(u)
    \/ \E u \in VipIds : VIPManager_remove_vip(u)

SpecStores == InitStores /\ [][NextStores]_vars

\* -------------------------------------------------- format_time_remaining
\* Here instants count units of 1/TicksPerSecond second: datetime keeps
\* fractions of a second, and format_time_remaining compares them.
TicksPerSecond == 2

\* The two fixed texts, and one part of the text: a number and the letter
\* of its unit (d, h, m for the days, hours and minutes letters).
ExpiredMarker == <<[n |-> 0, unit |-> "expired"]>>
LessThanMinuteMarker == <<[n |-> 0, unit |-> "less_than_minute"]>>
Part(n, unit) == <<[n |-> n, unit |-> unit]>>

\* format_time_remaining that lists the minutes beside the days too.
format_time_remaining_minutes_always(expires_at, t) ==
    IF expires_at <= t THEN ExpiredMarker
    ELSE LET delta_seconds == (expires_at - t) \div TicksPerSecond
             days == delta_seconds \div 86400
             seconds == delta_seconds % 86400
             hours == seconds \div 3600
             minutes == (seconds % 3600) \div 60
             parts == (IF days > 0 THEN Part(days, "d") ELSE <<>>)
                      \o (IF hours > 0 THEN Part(hours, "h") ELSE <<>>)
                      \o (IF minutes > 0 THEN Part(minutes, "m") ELSE <<>>)
         IN IF parts # <<>> THEN parts ELSE LessThanMinuteMarker

\* format_time_remaining(expires_at) at the instant t: the parts that
\* " ".join puts together, or one of the two fixed texts.
format_time_remaining(expires_at, t) ==
    IF expires_at <= t THEN ExpiredMarker
    ELSE LET delta_seconds == (expires_at - t) \div TicksPerSecond
             days == delta_seconds \div 86400
             seconds == delta_seconds % 86400
             hours == seconds \div 3600
             minutes == (seconds % 3600) \div 60
             parts == (IF days > 0 THEN Part(days, "d") ELSE <<>>)
                      \o (IF hours > 0 THEN Part(hours, "h") ELSE <<>>)
                      \o (IF minutes > 0 /\ days = 0
                          THEN Part(minutes, "m") ELSE <<>>)
         IN IF parts # <<>> THEN parts ELSE LessThanMinuteMarker

\* The instants of the calls, and how far from them the expiry lies:
\* past, now, fractions of a second ahead, and days, hours, minutes and
\* seconds ahead in every combination.
CallInstants == {10, 11}

Distances ==
    (0 - 3)..1
    \cup { ((d * 86400 + h * 3600 + m * 60 + sec) * TicksPerSecond) + f :
             d \in {0, 1, 2}, h \in {0, 3, 23}, m \in {0, 45, 59},
             sec \in {0, 10, 59}, f \in {0, 1} }

InitFormat ==
    /\ now \in CallInstants
    /\ \E dist \in Distances :
          users = (1 :> [UserData(1, NoUsername) EXCEPT !.expires_at = now + dist])
    /\ keyOrder = <<1>>
    /\ dataFile = Absent
    /\ disk = "ok"
    /\ vip_users = <<>>
    /\ vipFile = Absent
    /\ fsmState = [a \in ADMIN_IDS |-> "none"]
    /\ fsmData = [a \in ADMIN_IDS |-> ClearedData]
    /\ chat = [u \in UserIds |-> "out"]
    /\ swPc = "sleep"
    /\ swNow = 0
    /\ swQueue = <<>>
    /\ swCur = None
    /\ swDet = FALSE
    /\ warned = [u \in UserIds |-> 0]
    /\ revoked = {}
    /\ last = Ev("init", None, None, {}, "none", None)

\* A handler renders the time left of a user's record.
time_left(user_id) ==
    /\ user_id \in DOMAIN users
    /\ last' = Ev("format_time_remaining", user_id, None, {},
                  format_time_remaining(users[user_id].expires_at, now),
                  None)
    /\ UNCHANGED <<storeVars, vipVars, fsmVars, now, chat, sweeperVars,
                   warned, revoked>>

NextFormat == \E u \in InputIds : time_left(u)

SpecFormat == InitFormat /\ [][NextFormat]_vars

\* --------------------------------------------- files that fail and restarts
\* A record as load_data builds it from a file written earlier.
Loaded(user_id, expires_at) ==
    [UserData(user_id, NoUsername) EXCEPT !.expires_at = expires_at]

\* The ids of a set in ascending order.
RECURSIVE Ascending(_)
Ascending(S) ==
    IF S = {} THEN <<>>
    ELSE LET m == CHOOSE x \in S : \A y \in S : x <= y
         IN <<m>> \o Ascending(S \ {m})

\* The order of the keys of the dict load_data builds: the keys known in
\* memory keep their order, keys only the file knows follow.
loaded_keys(file, order) ==
    LET dom == DOMAIN load_data(file)
        kept == SelectSeq(order, LAMBDA k : k \in dom)
    IN kept \o Ascending(dom \ Range(kept))

\* What the two files can hold when the bot starts.
StartDataFiles == {Absent, Malformed, save_data((2 :> Loaded(2, 1)))}
StartVipFiles == {Absent, Malformed, save_vip(<<2>>)}

InitPersist ==
    /\ dataFile \in StartDataFiles
    /\ vipFile \in StartVipFiles
    /\ users = load_data(dataFile)
    /\ keyOrder = loaded_keys(dataFile, <<>>)
    /\ vip_users = load_vip(vipFile)
    /\ disk = "ok"
    /\ now = 0
    /\ fsmState = [a \in ADMIN_IDS |-> "none"]
    /\ fsmData = [a \in ADMIN_IDS |-> ClearedData]
    /\ chat = [u \in UserIds |-> "out"]
    /\ swPc = "sleep"
    /\ swNow = 0
    /\ swQueue = <<>>
    /\ swCur = None
    /\ swDet = FALSE
    /\ warned = [u \in UserIds |-> 0]
    /\ revoked = {}
    /\ last = Ev("init", None, None, {}, "none", None)

\* The file system starts or stops accepting writes.
disk_changes(d) ==
    /\ d # disk
    /\ disk' = d
    /\ last' = Ev("disk", None, None, {}, d, None)
    /\ UNCHANGED <<users, keyOrder, dataFile, vipVars, fsmVars, now, chat,
                   sweeperVars, warned, revoked>>

\* The process is started again: DataManager() and VIPManager() load the
\* files, the FSM storage is new, check_users_task starts with its sleep.
restart ==
    /\ users' = load_data(dataFile)
    /\ keyOrder' = loaded_keys(dataFile, keyOrder)
    /\ vip_users' = load_vip(vipFile)
    /\ fsmState' = [a \in ADMIN_IDS |-> "none"]
    /\ fsmData' = [a \in ADMIN_IDS |-> ClearedData]
    /\ swPc' = "sleep"
    /\ swNow' = 0
    /\ swQueue' = <<>>
    /\ swCur' = None
    /\ swDet' = FALSE
    /\ last' = Ev("restart", None, None, {}, "loaded", None)
    /\ UNCHANGED <<dataFile, vipFile, disk, now, chat, warned, revoked>>

NextPersist ==
    \/ \E d \in {"ok", "open_fails", "dump_fails"} : disk_changes(d)
    \/ restart
    \/ \E a \in ADMIN_IDS, u \in InputIds, h \in {x \in ButtonHours : x > 0},
             notifyOk \in BOOLEAN :
          callback_add_time(a, u, h, notifyOk)
    \/ \E a \in ADMIN_IDS, u \in InputIds, banOk \in BOOLEAN, unbanOk \in BOOLEAN :
          callback_remove_user(a, u, banOk, unbanOk)
    \/ \E a \in ADMIN_IDS : callback_add_vip(a)
    \/ \E a \in ADMIN_IDS : callback_remove_vip(a)
    \/ \E a \in ADMIN_IDS, text \in Texts : process_vip_id(a, text)

SpecPersist == InitPersist /\ [][NextPersist]_vars

\* ------------------------------------------------- a store of two records
\* The stores the bot can start with: a record of user 2, lapsed or due
\* for its warning, alone or before or after a record of user 1.
TwoRecordStores ==
    { [order |-> <<2>>, users |-> (2 :> Loaded(2, e2))] :
          e2 \in 0..WARNING_HOURS }
    \cup
    { [order |-> o, users |-> (1 :> Loaded(1, e1)) @@ (2 :> Loaded(2, e2))] :
          o \in {<<1, 2>>, <<2, 1>>}, e1 \in 0..WARNING_HOURS,
          e2 \in 0..WARNING_HOURS }

InitTwoRecords ==
    /\ \E st \in TwoRecordStores :
          /\ users = st.users
          /\ keyOrder = st.order
          /\ dataFile = save_data(st.users)
    /\ disk = "ok"
    /\ vip_users = <<>>
    /\ vipFile = Absent
    /\ now = 0
    /\ fsmState = [a \in ADMIN_IDS |-> "none"]
    /\ fsmData = [a \in ADMIN_IDS |-> ClearedData]
    /\ chat = [u \in UserIds |-> "out"]
    /\ swPc = "sleep"
    /\ swNow = 0
    /\ swQueue = <<>>
    /\ swCur = None
    /\ swDet = FALSE
    /\ warned = [u \in UserIds |-> 0]
    /\ revoked = {}
    /\ last = Ev("init", None, None, {}, "none", None)

\* The sweeper at work while an admin uses the time and remove buttons.
NextTwoRecords ==
    \/ Tick
    \/ \E a \in ADMIN_IDS, u \in InputIds, h \in ButtonHours,
             notifyOk \in BOOLEAN :
          callback_add_time(a, u, h, notifyOk)
    \/ \E a \in ADMIN_IDS, u \in InputIds, banOk \in BOOLEAN, unbanOk \in BOOLEAN :
          callback_remove_user(a, u, banOk, unbanOk)
    \/ check_users_task
    \/ \E ok \in BOOLEAN : kick_user_ban(ok)
    \/ \E ok \in BOOLEAN : kick_user_unban(ok)
    \/ \E userOk \in BOOLEAN, adminOk \in BOOLEAN :
          kick_user_remove(userOk, adminOk)
    \/ \E userOk \in BOOLEAN, adminOk \in BOOLEAN :
          send_warning(userOk, adminOk)

SpecTwoRecords == InitTwoRecords /\ [][NextTwoRecords]_vars

\* ------------------------------------------------ the sweeper kept going
\* The sweeper at work on a store of two records while an admin grants
\* and removes.  asyncio.sleep returns again and again, every coroutine
\* that is suspended is resumed, and for each user a ban and an unban that
\* are tried again and again succeed in the end.
NextLive ==
    \/ Tick
    \/ \E a \in ADMIN_IDS, u \in InputIds, h \in ButtonHours :
          callback_add_time(a, u, h, TRUE)
    \/ \E a \in ADMIN_IDS, u \in InputIds, banOk \in BOOLEAN, unbanOk \in BOOLEAN :
          callback_remove_user(a, u, banOk, unbanOk)
    \/ check_users_task
    \/ \E ok \in BOOLEAN : kick_user_ban(ok)
    \/ \E ok \in BOOLEAN : kick_user_unban(ok)
    \/ kick_user_remove(TRUE, TRUE)
    \/ send_warning(TRUE, TRUE)

SpecLive ==
    /\ InitTwoRecords
    /\ [][NextLive]_vars
    /\ WF_vars(check_users_task)
    /\ \A u \in UserIds : SF_vars(swCur = u /\ kick_user_ban(TRUE))
    /\ \A u \in UserIds : SF_vars(swCur = u /\ kick_user_unban(TRUE))
    /\ WF_vars(kick_user_remove(TRUE, TRUE))
    /\ WF_vars(send_warning(TRUE, TRUE))

\* ------------------------------------------------ senders of any kind
\* Those who send the bot commands, texts and button presses: the admins
\* and a user of the channel who is no admin.
Senders == ADMIN_IDS \cup InputIds

InitSenders ==
    /\ users = <<>>
    /\ keyOrder = <<>>
    /\ dataFile = Absent
    /\ disk = "ok"
    /\ vip_users = <<>>
    /\ vipFile = Absent
    /\ now = 0
    /\ fsmState = [s \in Senders |-> "none"]
    /\ fsmData = [s \in Senders |-> ClearedData]
    /\ chat = [u \in UserIds |-> "out"]
    /\ swPc = "sleep"
    /\ swNow = 0
    /\ swQueue = <<>>
    /\ swCur = None
    /\ swDet = FALSE
    /\ warned = [u \in UserIds |-> 0]
    /\ revoked = {}
    /\ last = Ev("init", None, None, {}, "none", None)

\* `if not is_admin(...): return`, for a button after callback.answer.
denied(op, calls) ==
    /\ last' = Ev(op, None, None, calls, "denied", None)
    /\ UNCHANGED <<storeVars, vipVars, fsmVars, now, chat, sweeperVars,
                   warned, revoked>>

\* The handlers as the dispatcher calls them for any sender: the state
\* filter of the decorator, then the handler's own test of is_admin.
on_cmd_add(s) ==
    IF is_admin(s) THEN cmd_add(s) ELSE denied("cmd_add", {})

on_process_user_id(s, text) ==
    /\ fsmState[s] = "waiting_for_user_id"
    /\ IF is_admin(s) THEN process_user_id(s, text)
       ELSE denied("process_user_id", {})

on_process_custom_hours(s, text) ==
    /\ fsmState[s] = "waiting_for_custom_hours"
    /\ IF is_admin(s) THEN process_custom_hours(s, text, TRUE)
       ELSE denied("process_custom_hours", {})

on_process_vip_id(s, text) ==
    /\ fsmState[s] = "waiting_for_vip_id"
    /\ IF is_admin(s) THEN process_vip_id(s, text)
       ELSE denied("process_vip_id", {})

on_callback_add_vip(s) ==
    IF is_admin(s) THEN callback_add_vip(s)
    ELSE denied("callback_add_vip", {"answer"})

on_callback_remove_vip(s) ==
    IF is_admin(s) THEN callback_remove_vip(s)
    ELSE denied("callback_remove_vip", {"answer"})

on_callback_add_time(s, user_id, hours) ==
    IF is_admin(s) THEN callback_add_time(s, user_id, hours, TRUE)
    ELSE denied("callback_add_time", {"answer"})

on_callback_custom_time(s, user_id) ==
    IF is_admin(s) THEN callback_custom_time(s, user_id)
    ELSE denied("callback_custom_time", {"answer"})

\* callback_remove_user that does not ask who pressed the button.
on_callback_remove_user_open(s, user_id, banOk, unbanOk) ==
    \E a \in ADMIN_IDS : callback_remove_user(a, user_id, banOk, unbanOk)

on_callback_remove_user(s, user_id, banOk, unbanOk) ==
    IF is_admin(s) THEN callback_remove_user(s, user_id, banOk, unbanOk)
    ELSE denied("callback_remove_user", {"answer"})

NextSenders ==
    \/ Tick
    \/ \E s \in Senders : on_cmd_add(s)
    \/ \E s \in Senders : cmd_cancel(s)
    \/ \E s \in Senders, text \in Texts : on_process_user_id(s, text)
    \/ \E s \in Senders, text \in Texts : on_process_custom_hours(s, text)
    \/ \E s \in Senders, text \in Texts : on_process_vip_id(s, text)
    \/ \E s \in Senders : on_callback_add_vip(s)
    \/ \E s \in Senders : on_callback_remove_vip(s)
    \/ \E s \in Senders, u \in InputIds, h \in ButtonHours :
          on_callback_add_time(s, u, h)
    \/ \E s \in Senders, u \in InputIds : on_callback_custom_time(s, u)
    \/ \E s \in Senders, u \in InputIds, banOk \in BOOLEAN, unbanOk \in BOOLEAN :
          on_callback_remove_user(s, u, banOk, unbanOk)
    \/ \E u \in InputIds, approveOk \in BOOLEAN : handle_join_request(u, approveOk)
    \/ \E u \in InputIds : cmd_info(u)

SpecSenders == InitSenders /\ [][NextSenders]_vars

\* =================================================================
\* Properties
\* =================================================================
GrantOps == {"callback_add_time", "process_custom_hours"}

\* The step just taken called add_or_update_user(uid, hours=hours).
GrantApplied ==
    /\ last'.op \in GrantOps
    /\ last'.result \in {"created", "unset", "active", "lapsed"}

StoreUnchanged ==
    /\ users' = users
    /\ keyOrder' = keyOrder
    /\ dataFile' = dataFile

\* C1: a grant of hours > 0 to a user whose record is active (expires_at
\* strictly after now) sets expires_at to the previous expires_at plus
\* hours, not to now plus hours, and warning_sent to false.
C1_GrantExtendsActive ==
    [][ ( /\ GrantApplied
          /\ last'.hours > 0
          /\ last'.uid \in DOMAIN users
          /\ users[last'.uid].expires_at # None
          /\ users[last'.uid].expires_at > now )
        => ( /\ last'.uid \in DOMAIN users'
             /\ users'[last'.uid].expires_at
                  = users[last'.uid].expires_at + last'.hours
             /\ users'[last'.uid].warning_sent = FALSE
             /\ dataFile' = save_data(users') ) ]_vars

\* An active record was extended: its expiry is further away than a grant
\* counted from now would put it.
C1_Witness ==
    /\ last.op \in GrantOps
    /\ last.result = "active"
    /\ last.hours > 0
    /\ users[last.uid].expires_at > now + last.hours
    /\ users[last.uid].warning_sent = FALSE

\* C2: a grant of hours > 0 to a user with no record, with a record that
\* has no expires_at, or with a lapsed record (expires_at <= now) sets
\* expires_at to now plus hours and warning_sent to false.
C2_GrantRenewsLapsed ==
    [][ ( /\ GrantApplied
          /\ last'.hours > 0
          /\ \/ ~(last'.uid \in DOMAIN users)
             \/ users[last'.uid].expires_at = None
             \/ users[last'.uid].expires_at <= now )
        => ( /\ last'.uid \in DOMAIN users'
             /\ users'[last'.uid].expires_at = now + last'.hours
             /\ users'[last'.uid].warning_sent = FALSE
             /\ dataFile' = save_data(users') ) ]_vars

\* A lapsed record was renewed from now.
C2_Witness ==
    /\ last.op \in GrantOps
    /\ last.result = "lapsed"
    /\ last.hours > 0
    /\ users[last.uid].expires_at = now + last.hours

\* C3: on every grant path a grant with hours <= 0 is rejected and leaves
\* the store, in memory and on disk, unchanged.
C3_NonPositiveRejected ==
    [][ ( /\ last'.op \in GrantOps
          /\ last'.hours # None
          /\ last'.hours <= 0 )
        => StoreUnchanged ]_vars

\* C4: on every grant path (id prompt, add_time button, custom-hours
\* prompt) a grant to a user who is on the allowlist is rejected and
\* leaves the store unchanged.
C4_VipGrantRejected ==
    [][ ( /\ \/ last'.op = "process_user_id"
             \/ last'.op \in GrantOps /\ last'.hours # None /\ last'.hours > 0
          /\ last'.uid # None
          /\ is_vip(vip_users, last'.uid) )
        => StoreUnchanged ]_vars

\* The precedence the access decision is to follow, from the stores.
ThreeWay(user_id) ==
    IF user_id \in Range(vip_users) THEN "Vip"
    ELSE IF /\ user_id \in DOMAIN users
            /\ users[user_id].expires_at # None
            /\ users[user_id].expires_at > now
         THEN "Active"
    ELSE "Denied"

\* C5: the access decision of the join handler and of the status report
\* is Vip whenever the allowlist holds the id, whatever record exists;
\* otherwise Active iff a record exists with expires_at strictly after
\* now; otherwise Denied.
C5_DecisionThreeWay ==
    last.op \in {"handle_join_request", "cmd_info"}
        => last.result = ThreeWay(last.uid)

\* An allowlisted user with a lapsed record asked to join and was decided
\* Vip.
C5_Witness ==
    /\ last.op = "handle_join_request"
    /\ last.result = "Vip"
    /\ last.uid \in DOMAIN users
    /\ users[last.uid].expires_at # None
    /\ users[last.uid].expires_at <= now

\* C6: the join handler approves only a requester who is allowlisted or
\* has valid access at that moment, leaves a Denied requester's request
\* pending with an admin notice that carries the requester's id, and
\* never declines.
C6_JoinApprovesOrLeavesPending ==
    last.op = "handle_join_request" =>
        /\ ~("decline" \in last.calls)
        /\ chat[last.uid] \in {"member", "pending"}
        /\ (chat[last.uid] = "member") = (last.calls = {"approve", "send_message_admin"})
        /\ "approve" \in last.calls =>
              \/ last.uid \in Range(vip_users)
              \/ /\ last.uid \in DOMAIN users
                 /\ users[last.uid].expires_at # None
                 /\ users[last.uid].expires_at > now
        /\ ThreeWay(last.uid) = "Denied" =>
              /\ chat[last.uid] = "pending"
              /\ last.calls = {"send_message_admin"}
              /\ last.notice = last.uid

\* A requester with no valid access was left pending, the admins told.
C6_Witness ==
    /\ last.op = "handle_join_request"
    /\ last.result = "Denied"
    /\ chat[last.uid] = "pending"
    /\ last.notice = last.uid

QueueIds == { swQueue[i].uid : i \in 1..Len(swQueue) }

\* The sweeper is running kick_user or send_warning for the user, or has
\* the user's entry still ahead of it in this tick.
SweeperTargets(user_id) ==
    \/ swPc \in {"ban", "unban", "notify", "warn"} /\ swCur = user_id
    \/ user_id \in QueueIds

Lapsed(user_id) ==
    /\ user_id \in DOMAIN users
    /\ users[user_id].expires_at # None
    /\ users[user_id].expires_at <= now

InWarningWindow(user_id) ==
    /\ user_id \in DOMAIN users
    /\ users[user_id].expires_at # None
    /\ users[user_id].expires_at > now
    /\ users[user_id].expires_at - now <= WARNING_HOURS

\* C7: a tick that meets a lapsed record, the ban and unban succeeding,
\* removes the record; until a new record is created for that user no
\* later tick bans, unbans, notifies or changes the store for the user.
C7_RevocationRemovesOnce ==
    /\ last.op = "check_users_task" =>
          \A u \in DOMAIN users : Lapsed(u) => SweeperTargets(u)
    /\ (last.op = "kick_user" /\ last.result = "removed") =>
          /\ ~(last.uid \in DOMAIN users)
          /\ ~(last.uid \in Range(keyOrder))
          /\ last.uid \in revoked
          /\ dataFile = save_data(users)
    /\ \A u \in revoked : ~(u \in DOMAIN users) /\ ~SweeperTargets(u)

\* A record was revoked and the next tick found nothing to do.
C7_Witness ==
    /\ last.op = "check_users_task"
    /\ swPc = "sleep"
    /\ revoked # {}

\* C8: at most one warning per grant period: a tick over a record that is
\* not allowlisted, unexpired, within the warning threshold and not yet
\* warned sends the warning, sets warning_sent and keeps the record; no
\* later tick warns again before a grant.
C8_OneWarningPerGrant ==
    /\ \A u \in UserIds : warned[u] <= 1
    /\ last.op = "check_users_task" =>
          \A u \in DOMAIN users :
              ( /\ InWarningWindow(u)
                /\ ~users[u].warning_sent
                /\ ~(u \in Range(vip_users)) )
              => \/ swPc = "warn" /\ swCur = u /\ warned[u] = 1
                 \/ u \in QueueIds
    /\ (last.op = "send_warning" /\ last.result = "flag_set") =>
          /\ last.uid \in DOMAIN users
          /\ users[last.uid].warning_sent = TRUE
          /\ dataFile = save_data(users)

\* A warned record, still unexpired and within the threshold, met another
\* tick, which warned nobody.
C8_Witness ==
    /\ last.op = "check_users_task"
    /\ swPc = "sleep"
    /\ \E u \in DOMAIN users :
          /\ InWarningWindow(u)
          /\ users[u].warning_sent
          /\ warned[u] = 1
          /\ ~(u \in Range(vip_users))

\* C9: an allowlisted user is never treated as expired: the join decision
\* and the status report say Vip, and no tick starts a warning or a
\* revocation (ban) for an allowlisted user.
C9_VipNeverExpired ==
    /\ (last.op \in {"handle_join_request", "cmd_info"}
          /\ last.uid \in Range(vip_users)) => last.result = "Vip"
    /\ (last.op = "check_users_task" /\ swPc \in {"ban", "warn"})
          => ~(swCur \in Range(vip_users))

\* C10: in the sweeper the allowlist suppresses only the warning: a tick
\* starts no warning for an allowlisted user and the flag is set only
\* where a warning was started, while a lapsed record of an allowlisted
\* user is revoked and deleted like any other.
C10_State ==
    /\ last.op = "check_users_task" =>
          \A u \in DOMAIN users :
              /\ (u \in Range(vip_users) /\ InWarningWindow(u)) =>
                    ~(swPc = "warn" /\ swCur = u)
              /\ (u \in Range(vip_users) /\ Lapsed(u)) =>
                    (SweeperTargets(u) /\ (swCur = u => swPc = "ban"))
    /\ (last.op = "kick_user" /\ last.result = "removed"
          /\ last.uid \in Range(vip_users)) => ~(last.uid \in DOMAIN users)

C10_Step ==
    /\ \A u \in UserIds :
          warned'[u] > warned[u] => ~(u \in Range(vip_users))
    /\ \A u \in DOMAIN users \cap DOMAIN users' :
          (users'[u].warning_sent /\ ~users[u].warning_sent)
              => (swPc = "warn" /\ swCur = u /\ last'.op = "send_warning")

C10_VipSuppressesOnlyWarning == [](C10_State) /\ [][C10_Step]_vars

\* A tick passed over the unwarned record of an allowlisted user that is
\* within the warning threshold.
C10_Witness ==
    /\ last.op = "check_users_task"
    /\ swPc = "sleep"
    /\ \E u \in DOMAIN users :
          /\ u \in Range(vip_users)
          /\ InWarningWindow(u)
          /\ ~users[u].warning_sent
          /\ warned[u] = 0

Notices == {"send_message_user", "send_message_admin"}

\* C11: a failed ban or unban of a sweeper revocation leaves the record
\* and the file as they were and sends no revocation notice; the record
\* stays lapsed, so the next tick takes it up again; the notices go out
\* only in the step that deletes the record, once per revocation.
C11_State ==
    /\ swPc # "sleep" => ~(swCur \in QueueIds)
    /\ \A i, j \in 1..Len(swQueue) :
          swQueue[i].uid = swQueue[j].uid => i = j
    /\ (last.op = "kick_user" /\ last.result = "failed") =>
          ~SweeperTargets(last.uid)
    /\ last.op = "check_users_task" =>
          \A u \in DOMAIN users :
              Lapsed(u) => (SweeperTargets(u) /\ (swCur = u => swPc = "ban"))

C11_Step ==
    /\ (last'.op = "kick_user" /\ last'.result = "failed") =>
          /\ users' = users
          /\ keyOrder' = keyOrder
          /\ dataFile' = dataFile
          /\ revoked' = revoked
          /\ last'.calls \cap Notices = {}
    /\ (last'.op = "kick_user" /\ last'.calls \cap Notices # {}) =>
          /\ last'.result = "removed"
          /\ swPc = "notify"
          /\ last'.uid = swCur
          /\ ~(swCur \in revoked)
          /\ swCur \in revoked'
          /\ ~(swCur \in DOMAIN users')

C11_FailedRevocationRetries == [](C11_State) /\ [][C11_Step]_vars

\* The unban of a revocation failed: the tick is over and the record is
\* still there, lapsed, for the next tick.
C11_Witness ==
    /\ last.op = "kick_user"
    /\ last.result = "failed"
    /\ last.calls = {"unban_chat_member"}
    /\ swPc = "sleep"
    /\ Lapsed(last.uid)
    /\ dataFile = save_data(users)

\* The entry's record is due in the running tick: lapsed at the tick's
\* now, or unwarned and within the warning threshold of it.
DueKick(e, us, t) ==
    /\ Obj(e, us).expires_at # None
    /\ Obj(e, us).expires_at <= t

DueWarn(e, us, vips, t) ==
    /\ Obj(e, us).expires_at # None
    /\ Obj(e, us).expires_at > t
    /\ Obj(e, us).expires_at - t <= WARNING_HOURS
    /\ ~Obj(e, us).warning_sent
    /\ ~(e.uid \in Range(vips))
    /\ e.uid \in DOMAIN us
    /\ us[e.uid].expires_at # None

SweeperOps == {"kick_user", "send_warning"}

\* C12: a failed ban, unban or notice for one record does not end the
\* tick: a step of the sweeper drops from the rest of the snapshot only
\* entries that are not due, goes on with the first due one (ban for a
\* lapsed record, warning otherwise), and sleeps only when no due entry
\* is left.
C12_TickSurvivesFailures ==
    [][ last'.op \in SweeperOps =>
          /\ \A i \in 1..Len(swQueue) :
                \/ \E j \in 1..Len(swQueue') : swQueue'[j] = swQueue[i]
                \/ swPc' # "sleep" /\ swCur' = swQueue[i].uid
                \/ /\ ~DueKick(swQueue[i], users', swNow)
                   /\ ~DueWarn(swQueue[i], users', vip_users', swNow)
          /\ swPc' = "sleep" => swQueue' = <<>>
          /\ (swPc' = "ban" /\ swCur' # swCur) =>
                \E i \in 1..Len(swQueue) :
                    swQueue[i].uid = swCur' /\ DueKick(swQueue[i], users', swNow)
          /\ swPc' = "warn" =>
                \E i \in 1..Len(swQueue) :
                    swQueue[i].uid = swCur' /\ DueWarn(swQueue[i], users', vip_users', swNow) ]_vars

\* The ban of the first record of the snapshot failed and the same tick
\* went on to the other record.
C12_Witness ==
    /\ last.op = "kick_user"
    /\ last.result = "failed"
    /\ swPc \in {"ban", "warn"}
    /\ swCur # last.uid
    /\ last.uid \in DOMAIN users

\* C13: a notice that fails does not hold up the change it goes with:
\* once ban and unban are through the record is deleted and the file
\* rewritten, a warning sets warning_sent and saves, and a grant is stored
\* and saved, whichever of the notices raised.
C13_NoticeFailureKeepsMutation ==
    [][ /\ (swPc = "notify" /\ last'.op = "kick_user") =>
              /\ last'.result = "removed"
              /\ ~(swCur \in DOMAIN users')
              /\ ~(swCur \in Range(keyOrder'))
              /\ dataFile' = save_data(users')
        /\ (swPc = "warn" /\ ~swDet /\ last'.op = "send_warning") =>
              /\ swCur \in DOMAIN users'
              /\ users'[swCur].warning_sent
              /\ dataFile' = save_data(users')
        /\ GrantApplied =>
              /\ last'.uid \in DOMAIN users'
              /\ users'[last'.uid].expires_at =
                    (IF /\ last'.uid \in DOMAIN users
                        /\ users[last'.uid].expires_at # None
                        /\ users[last'.uid].expires_at > now
                     THEN users[last'.uid].expires_at ELSE now) + last'.hours
              /\ dataFile' = save_data(users') ]_vars

\* A revocation whose notices both failed: the record is gone all the
\* same.
C13_Witness ==
    /\ last.op = "kick_user"
    /\ last.result = "removed"
    /\ last.failed = Notices
    /\ ~(last.uid \in DOMAIN users)
    /\ dataFile = save_data(users)

\* C14: write-through: with writes that succeed, between any two handler
\* steps each file holds what its store holds, so that the startup load
\* of a restart gives back the records and the allowlist as they are in
\* memory.
C14_WriteThrough ==
    /\ load_data(dataFile) = users
    /\ load_vip(vipFile) = vip_users
    /\ users # <<>> => dataFile = save_data(users)
    /\ vip_users # <<>> => vipFile = save_vip(vip_users)

\* A warning has just set the flag of a record, with an allowlist entry
\* on file as well: a reload gives the flag back.
C14_Witness ==
    /\ last.op = "send_warning"
    /\ last.result = "flag_set"
    /\ users[last.uid].warning_sent
    /\ load_data(dataFile)[last.uid].warning_sent
    /\ load_data(dataFile)[last.uid].expires_at = users[last.uid].expires_at
    /\ load_vip(vipFile) # <<>>

\* C15: round trip: for every dict of records (with or without an
\* expires_at, with or without a username, warning_sent set or not) a
\* load of what save_data wrote gives the same keys and, under each key,
\* the same user_id, username, expires_at and warning_sent.
C15_RoundTrip ==
    [][ (last'.op = "load_data" /\ dataFile = save_data(users)) =>
          /\ DOMAIN users' = DOMAIN users
          /\ \A u \in DOMAIN users :
                /\ users'[u].user_id = users[u].user_id
                /\ users'[u].username = users[u].username
                /\ users'[u].expires_at = users[u].expires_at
                /\ users'[u].warning_sent = users[u].warning_sent ]_vars

\* A dict of two records, one without expires_at and username, one warned
\* and named, was saved and loaded.
C15_Witness ==
    /\ last.op = "load_data"
    /\ dataFile = save_data(users)
    /\ DOMAIN users = {1, 2}
    /\ users[1].expires_at = None
    /\ users[1].username = NoUsername
    /\ users[2].expires_at = MaxExpiry
    /\ users[2].warning_sent
    /\ users[2].username # NoUsername

NoDuplicates(vips) ==
    \A i, j \in 1..Len(vips) : vips[i] = vips[j] => i = j

\* C17: the allowlist is a set: no id is in it twice; add_vip of an id
\* that is in it and remove_vip of one that is not change neither the
\* list nor the file; after add_vip the id is in it, after remove_vip it
\* is not, and the other ids are as before.
C17_Step ==
    /\ (last'.op = "add_vip") =>
          ( /\ is_vip(vip_users', last'.uid)
            /\ Range(vip_users') = Range(vip_users) \cup {last'.uid}
            /\ (is_vip(vip_users, last'.uid) =>
                  (vip_users' = vip_users /\ vipFile' = vipFile))
            /\ add_vip(vip_users', last'.uid) = vip_users' )
    /\ (last'.op = "remove_vip") =>
          ( /\ ~is_vip(vip_users', last'.uid)
            /\ Range(vip_users') = Range(vip_users) \ {last'.uid}
            /\ (~is_vip(vip_users, last'.uid) =>
                  (vip_users' = vip_users /\ vipFile' = vipFile)) )

C17_AllowlistIsSet == [](NoDuplicates(vip_users)) /\ [][C17_Step]_vars

\* An id that was on a list of three was added once more and the list
\* stayed as it was.
C17_Witness ==
    /\ last.op = "add_vip"
    /\ last.result = "present"
    /\ Len(vip_users) = 3
    /\ vipFile = save_vip(vip_users)

\* C16: failures of the files are absorbed: a startup that finds a file
\* it cannot parse goes on with the empty store; a write that fails
\* leaves the change in memory and on file the records (the allowlist)
\* that were there before, as a load reads them; the next write that
\* succeeds puts the whole store of the moment on file.
C16_PersistenceFailuresAbsorbed ==
    [][ /\ (last'.op = "restart") =>
              /\ (dataFile.kind # "json" => users' = <<>>)
              /\ (vipFile.kind # "json" => vip_users' = <<>>)
        /\ (last'.op # "restart" /\ users' # users) =>
              /\ (disk = "ok" => dataFile' = save_data(users'))
              /\ (disk # "ok" => load_data(dataFile') = load_data(dataFile))
        /\ (last'.op # "restart" /\ vip_users' # vip_users) =>
              /\ (disk = "ok" => vipFile' = save_vip(vip_users'))
              /\ (disk # "ok" => load_vip(vipFile') = load_vip(vipFile)) ]_vars

\* C18: the allowlist, in memory and on file, changes only in the step of
\* the admin's VIP add or remove: the ticks of the sweeper (revocation and
\* warning), the join handler, the grants and the removals of records
\* leave both as they are.
C18_AllowlistOnlyByAdmin ==
    [][ /\ (vip_users' # vip_users \/ vipFile' # vipFile) =>
              /\ last'.op = "process_vip_id"
              /\ last'.result \in {"add", "remove"}
              /\ \E a \in ADMIN_IDS : fsmState[a] = "waiting_for_vip_id"
        /\ last'.op \in {"check_users_task", "kick_user", "send_warning",
                          "handle_join_request", "callback_add_time",
                          "process_custom_hours", "process_user_id",
                          "callback_remove_user"} =>
              (vip_users' = vip_users /\ vipFile' = vipFile) ]_vars

\* The sweeper has revoked and deleted the record of a user who is on the
\* allowlist, and the allowlist holds the user as before.
C18_Witness ==
    /\ last.op = "kick_user"
    /\ last.result = "removed"
    /\ is_vip(vip_users, last.uid)
    /\ vipFile = save_vip(vip_users)

\* C19: the join handler changes neither store, whatever it decides and
\* whether or not approve succeeds: the records, their file, the
\* allowlist and its file are after the handler what they were before.
C19_JoinLeavesStores ==
    [][ last'.op = "handle_join_request" =>
          /\ users' = users
          /\ keyOrder' = keyOrder
          /\ dataFile' = dataFile
          /\ vip_users' = vip_users
          /\ vipFile' = vipFile ]_vars

\* A requester with valid access whose approve call failed: the request
\* pends and the record is there as before.
C19_Witness ==
    /\ last.op = "handle_join_request"
    /\ last.result = "Active"
    /\ chat[last.uid] = "pending"
    /\ last.uid \in DOMAIN users
    /\ users[last.uid].expires_at > now
    /\ dataFile = save_data(users)

\* The whole seconds from now to the expiry of the record rendered last,
\* and the day, hour and minute components of them.
WholeSeconds == (users[last.uid].expires_at - now) \div TicksPerSecond
DayComponent == WholeSeconds \div 86400
HourComponent == (WholeSeconds % 86400) \div 3600
MinuteComponent == (WholeSeconds % 3600) \div 60

Listed(unit) == \E i \in 1..Len(last.result) : last.result[i].unit = unit
Value(unit) ==
    last.result[CHOOSE i \in 1..Len(last.result) : last.result[i].unit = unit].n
Before(u1, u2) ==
    \A i, j \in 1..Len(last.result) :
        (last.result[i].unit = u1 /\ last.result[j].unit = u2) => i < j

\* What the text lists when the expiry is still ahead.
ComponentsListed ==
    /\ Listed("d") = (DayComponent > 0)
    /\ Listed("d") => Value("d") = DayComponent
    /\ Listed("h") = (HourComponent > 0)
    /\ Listed("h") => Value("h") = HourComponent
    /\ Listed("m") = (MinuteComponent > 0 /\ DayComponent = 0)
    /\ Listed("m") => Value("m") = MinuteComponent
    /\ Before("d", "h") /\ Before("d", "m") /\ Before("h", "m")
    /\ Len(last.result) <= 3
    /\ (last.result = LessThanMinuteMarker)
          = ~(Listed("d") \/ Listed("h") \/ Listed("m"))
    /\ ~Listed("expired")

\* C20 as it stands: the text is a function of the whole-second
\* difference d alone: the expired marker for d <= 0, otherwise the day,
\* hour and minute components as listed, the marker for less than a
\* minute when none is.
C20_RemainingTimeBySeconds ==
    last.op = "format_time_remaining" =>
        IF WholeSeconds <= 0 THEN last.result = ExpiredMarker
        ELSE ComponentsListed

\* C20 amended: the expired marker is rendered exactly when expires_at
\* is not after now, fractions of a second counted; otherwise the text
\* follows the whole seconds of the difference: days if > 0, hours if
\* > 0, minutes if > 0 and the days are 0, and the marker for less than a
\* minute exactly when none is listed, which includes an expiry less
\* than a second ahead.
C20_RemainingTime ==
    last.op = "format_time_remaining" =>
        IF users[last.uid].expires_at <= now THEN last.result = ExpiredMarker
        ELSE ComponentsListed

\* An expiry half a second ahead was rendered as less than a minute, and
\* not as expired.
C20_Witness ==
    /\ last.op = "format_time_remaining"
    /\ users[last.uid].expires_at > now
    /\ WholeSeconds = 0
    /\ last.result = LessThanMinuteMarker

\* C21: with the sweeper ticking on and bans and unbans that succeed in
\* the end, no lapsed record stays stored for ever: it is removed, or a
\* grant renews it; and the sweeper deletes a record only at the end of a
\* revocation whose ban and unban both succeeded.
C21_RevocationAfterBan ==
    /\ (swPc' = "unban" /\ swPc # "unban") =>
          (swPc = "ban" /\ last'.calls = {"ban_chat_member"}
              /\ last'.result = "banned")
    /\ (swPc' = "notify" /\ swPc # "notify") =>
          (swPc = "unban" /\ last'.calls = {"unban_chat_member"}
              /\ last'.result = "unbanned")
    /\ (last'.op = "kick_user" /\ last'.result = "removed") =>
          (swPc = "notify" /\ ~(swCur \in DOMAIN users'))

C21_LapsedEventuallyRemoved ==
    /\ \A u \in UserIds : Lapsed(u) ~> ~Lapsed(u)
    /\ [][C21_RevocationAfterBan]_vars

\* The sweeper has removed a lapsed record after a ban and an unban that
\* succeeded, and the other user's record is still stored.
C21_Witness ==
    /\ last.op = "kick_user"
    /\ last.result = "removed"
    /\ last.uid \in revoked
    /\ ~(last.uid \in DOMAIN users)
    /\ chat[last.uid] = "out"
    /\ DOMAIN users # {}

\* C22: warning_sent is set only if a warning has been sent for the
\* current grant period: after a grant the flag stays unset until the
\* sweeper starts a warning for the new period, also when a warning for
\* the period before was in flight while the grant was applied.
C22_FlagOnlyAfterWarning ==
    \A u \in DOMAIN users : users[u].warning_sent => warned[u] >= 1

\* C23: with the admin handlers and the sweeper interleaved at their
\* awaits, a store mutation and its write are one step: the store holds
\* one record per user id, under the key that is the record's user_id,
\* and the file agrees with it; an expiry changes only in a grant step for
\* that user, and a grant to an active record adds exactly its hours to
\* the expiry the record had, so that two grants of h1 and h2 add h1 + h2.
C23_State ==
    /\ \A u \in DOMAIN users : users[u].user_id = u
    /\ Range(keyOrder) = DOMAIN users
    /\ \A i, j \in 1..Len(keyOrder) : keyOrder[i] = keyOrder[j] => i = j
    /\ dataFile = save_data(users)

C23_Step ==
    /\ \A u \in DOMAIN users \cap DOMAIN users' :
          users'[u].expires_at # users[u].expires_at =>
              (last'.op \in GrantOps /\ last'.uid = u)
    /\ \A u \in DOMAIN users :
          ( /\ last'.op \in GrantOps
            /\ last'.uid = u
            /\ users[u].expires_at # None
            /\ users[u].expires_at > now )
          => /\ u \in DOMAIN users'
             /\ users'[u].expires_at = users[u].expires_at + last'.hours
             /\ dataFile' = save_data(users')

C23_MutationsUninterrupted == [](C23_State) /\ [][C23_Step]_vars

\* A grant to an active record was applied while the sweeper was
\* suspended in the warning for that record, beside another record.
C23_Witness ==
    /\ last.op = "callback_add_time"
    /\ last.result = "active"
    /\ last.hours > 0
    /\ swPc = "warn"
    /\ swCur = last.uid
    /\ users[last.uid].expires_at = MaxExpiry
    /\ Cardinality(DOMAIN users) = 2

\* C24: the sweeper deletes a record only if it is lapsed at the moment
\* of deletion: a record that a grant renewed, or that was removed and
\* created again, while its revocation was in flight is not deleted by
\* that revocation.
C24_DeletesOnlyLapsed ==
    [][ ( /\ last'.op = "kick_user"
          /\ last'.result = "removed"
          /\ swCur \in DOMAIN users )
        => ( /\ users[swCur].expires_at # None
             /\ users[swCur].expires_at <= now ) ]_vars

\* C25: a user who is a member of the channel and not allowlisted has a
\* record with an expiry, so that the sweeper has something to act on when
\* the grant lapses.
C25_MemberHasRecord ==
    \A u \in UserIds :
        (chat[u] = "member" /\ ~is_special_user(vip_users, u)) =>
            (has_user(users, u) /\ users[u].expires_at # None)

\* C26: a record without an expiry is no grant: it gives neither valid
\* access nor, by itself, a join approval, and no step of the sweeper
\* warns or revokes its user or changes or deletes the record; only a
\* grant or an admin's removal ends that.
NoGrantIssued(u) == u \in DOMAIN users /\ users[u].expires_at = None

C26_State ==
    \A u \in UserIds : NoGrantIssued(u) =>
        /\ ~has_valid_access(users, u, now)
        /\ (last.op = "handle_join_request" /\ last.uid = u) =>
              last.result # "Active"
        /\ last.op = "check_users_task" => swCur # u

C26_Step ==
    \A u \in UserIds :
        (NoGrantIssued(u) /\ last'.op \in SweeperOps \cup {"check_users_task"})
        => /\ u \in DOMAIN users'
           /\ users'[u] = users[u]
           /\ (swCur' = u => swCur = u)

C26_NoExpiryIsSkipped == [](C26_State) /\ [][C26_Step]_vars

\* C27: no event that comes from a sender outside the admin set changes
\* the store of grants or the allowlist, whatever prompt state the
\* sessions are in: each command, prompt step and button that can create,
\* extend or delete a grant or an allowlist entry returns at its test of
\* is_admin, and /cancel, /info and a join request change neither.
FromSender(s) ==
    \/ on_cmd_add(s)
    \/ cmd_cancel(s)
    \/ \E text \in Texts : on_process_user_id(s, text)
    \/ \E text \in Texts : on_process_custom_hours(s, text)
    \/ \E text \in Texts : on_process_vip_id(s, text)
    \/ on_callback_add_vip(s)
    \/ on_callback_remove_vip(s)
    \/ \E u \in InputIds, h \in ButtonHours : on_callback_add_time(s, u, h)
    \/ \E u \in InputIds : on_callback_custom_time(s, u)
    \/ \E u \in InputIds, banOk \in BOOLEAN, unbanOk \in BOOLEAN :
          on_callback_remove_user(s, u, banOk, unbanOk)
    \/ \E approveOk \in BOOLEAN : handle_join_request(s, approveOk)
    \/ cmd_info(s)

C27_NonAdminChangesNothing ==
    [][ \A s \in Senders \ ADMIN_IDS :
            FromSender(s) =>
                /\ UNCHANGED <<users, keyOrder, dataFile, vip_users, vipFile>>
                /\ \A a \in ADMIN_IDS :
                      fsmState'[a] = fsmState[a] /\ fsmData'[a] = fsmData[a] ]_vars

\* The user pressed the remove button for their own record while an admin
\* was in a prompt: the press was refused and the record is there.
C27_Witness ==
    /\ last.op = "callback_remove_user"
    /\ last.result = "denied"
    /\ \E u \in InputIds : has_user(users, u) /\ users[u].expires_at # None
    /\ vip_users # <<>>
    /\ \E a \in ADMIN_IDS : fsmState[a] = "waiting_for_custom_hours"

\* C28: the admin prompt is a state machine over none and the three
\* waiting states.  /cancel leads to none from every state and changes
\* neither store.  While waiting for custom hours, a text that is no
\* number or no positive number leaves the session waiting and the store
\* as it is; a positive number applies one grant of that many hours to the
\* user id the session holds and leads to none.  While waiting for a user
\* id or a VIP id, a text that resolves to no id leaves the state and the
\* stores as they are.
PromptStates ==
    {"none", "waiting_for_user_id", "waiting_for_custom_hours",
     "waiting_for_vip_id"}

StoresUnchanged == UNCHANGED <<users, keyOrder, dataFile, vip_users, vipFile>>

C28_State ==
    \A s \in DOMAIN fsmState :
        /\ fsmState[s] \in PromptStates
        /\ fsmState[s] = "waiting_for_custom_hours" =>
              fsmData[s].user_id \in InputIds

C28_Step ==
    \A s \in Senders :
        /\ cmd_cancel(s) => (fsmState'[s] = "none" /\ StoresUnchanged)
        /\ \A text \in Texts :
              on_process_custom_hours(s, text) =>
                  IF ~float(text).ok \/ float(text).value <= 0
                  THEN /\ fsmState'[s] = "waiting_for_custom_hours"
                       /\ fsmData' = fsmData
                       /\ StoresUnchanged
                  ELSE LET u == fsmData[s].user_id
                           h == float(text).value
                           from == IF /\ u \in DOMAIN users
                                      /\ users[u].expires_at # None
                                      /\ users[u].expires_at > now
                                   THEN users[u].expires_at ELSE now
                       IN /\ fsmState'[s] = "none"
                          /\ DOMAIN users' = DOMAIN users \cup {u}
                          /\ users'[u].expires_at = from + h
                          /\ \A v \in DOMAIN users \ {u} : users'[v] = users[v]
                          /\ dataFile' = save_data(users')
                          /\ UNCHANGED <<vip_users, vipFile>>
        /\ \A text \in Texts :
              ( /\ on_process_user_id(s, text) \/ on_process_vip_id(s, text)
                /\ falsy(resolve_user_identifier(text)) )
              => /\ fsmState' = fsmState
                 /\ fsmData' = fsmData
                 /\ StoresUnchanged

====
